---- MODULE Spec2Model ----
(***************************************************************************)
(* The selectable list widget of List.jsx (List = memo(WrappedList-        *)
(* Component)) together with its row component SingleListItem              *)
(* (memo(WrappedSingleListItem), given in the README's "updated code").    *)
(*                                                                         *)
(* The host rendering system is modelled by what the components rely on:   *)
(* hook cells that persist between renders, memo's shallow comparison of   *)
(* props, children matched by key, and passive effects that run after the  *)
(* commit of the render that scheduled them.                               *)
(***************************************************************************)
EXTENDS Integers, Sequences, FiniteSets, TLC

\* Longest collection the host passes, and the number of distinct array
\* objects (references) that exist for each content.
MaxLen == 3
Copies == 2

----------------------------------------------------------------------------
\* JavaScript values

JNull == [t |-> "null"]
JUndefined == [t |-> "undefined"]
Num(n) == [t |-> "number", n |-> n]

\* Object.is: the comparison of hook dependencies and of memo's props.
ObjectIs(a, b) == a = b

\* The == operator on the values that occur: null, undefined, numbers, arrays.
LooseEquals(a, b) ==
    IF a.t \in {"null", "undefined"} THEN b.t \in {"null", "undefined"}
    ELSE IF b.t \in {"null", "undefined"} THEN FALSE
    ELSE a = b

\* The original selection test of the component (README, problem 6): the
\* selected index itself is handed over as the flag, so a row is shown
\* selected whenever the index is a truthy number.
IsSelectedTruthy(selectedIndex, index) ==
    selectedIndex.t = "number" /\ selectedIndex.n # 0

\* isSelected={selectedIndex == index}
IsSelected(selectedIndex, index) == LooseEquals(selectedIndex, Num(index))

----------------------------------------------------------------------------
\* Inputs of the host

\* Entries of the shape the propTypes require; two of them share an id.
Entries ==
    { [id |-> "a", text |-> "Apple"], [id |-> "b", text |-> "Banana"],
      [id |-> "c", text |-> "Cherry"], [id |-> "a", text |-> "Avocado"] }

UniqueIds(s) == \A i, j \in DOMAIN s : i # j => s[i].id # s[j].id

Collections ==
    { s \in UNION { [1..k -> Entries] : k \in 0..MaxLen } : UniqueIds(s) }

\* Array objects: Copies references per content, so that two different
\* references can hold element-wise identical collections.
Refs == { [t |-> "array", of |-> c, copy |-> k] : c \in Collections, k \in 1..Copies }

\* What the host can pass as `items`: nothing, null, or an array.
ItemsInputs == {JUndefined, JNull} \cup Refs

----------------------------------------------------------------------------
VARIABLES
    heap,           \* the content of every array object
    mounted,        \* whether a List instance is mounted
    props,          \* the `items` prop as the host passed it
    selectedIndex,  \* the useState cell
    effectDeps,     \* the dependency [items] the effect hook last saw
    effectPending,  \* the reset effect is scheduled and has not run yet
    handleClick,    \* the useCallback cell: the memoised function (0: none)
    dom,            \* the committed output: JNull or the ul with its rows
    rowRenders,     \* keys of the rows whose function ran in the last step
    invoked,        \* arguments of the onClickHandler calls of the last step
    why,            \* what scheduled the reset effect most recently
    last            \* the last operation: [op, pos, prevSel]

vars == <<heap, mounted, props, selectedIndex, effectDeps, effectPending,
          handleClick, dom, rowRenders, invoked, why, last>>

----------------------------------------------------------------------------
\* The row: SingleListItem = memo(WrappedSingleListItem)

\* The original row (README, problem 7): onClick={onClickHandler(index)}
\* calls the handler while the row renders.
WrappedSingleListItemEager(p) ==
    [li |-> [backgroundColor |-> IF p.isSelected THEN "green" ELSE "red",
             text |-> p.text,
             onClick |-> [handler |-> p.onClickHandler, arg |-> p.index]],
     invoked |-> <<p.index>>]

\* One render of the row: the li element, and the handler calls made while
\* rendering (none: the call sits inside the onClick arrow function).
WrappedSingleListItem(p) ==
    [li |-> [backgroundColor |-> IF p.isSelected THEN "green" ELSE "red",
             text |-> p.text,
             onClick |-> [handler |-> p.onClickHandler, arg |-> p.index]],
     invoked |-> <<>>]

\* A row without memo: it renders whenever its parent does.
SingleListItemNoMemo(prevProps, nextProps) == FALSE

\* memo's shallow comparison: the row is skipped when every prop is the same.
SingleListItemSkips(prevProps, nextProps) ==
    \A f \in DOMAIN nextProps : ObjectIs(prevProps[f], nextProps[f])

----------------------------------------------------------------------------
\* The list: List = memo(WrappedListComponent)

\* defaultProps: an absent `items` becomes null.
DefaultProps(items) == IF items = JUndefined THEN JNull ELSE items

\* memo(WrappedListComponent): skipped when the host passes the same `items`.
ListSkips(prevItems, nextItems) == ObjectIs(prevItems, nextItems)

\* useState(null)
UseState(cell, isMount) == IF isMount THEN JNull ELSE cell

\* A useCallback that keeps nothing: every render hands out the new function.
UseCallbackFresh(cell, fresh, isMount) == fresh

\* useCallback(fn, []): the function of the first render is kept.
UseCallback(cell, fresh, isMount) == IF isMount THEN fresh ELSE cell

\* An effect with no dependency on items: it runs after the first render only.
UseEffectOnMount(prevDeps, items, isMount) == isMount

\* useEffect(fn, [items]): scheduled on mount and when items is another value.
UseEffect(prevDeps, items, isMount) == isMount \/ ~ObjectIs(prevDeps, items)

\* The effect's body: setSelectedIndex(null).
EffectBody == JNull

\* A handler that toggles: a click on the selected row deselects it.
HandleClickToggle(prev, index) ==
    IF prev = Num(index) THEN JNull ELSE Num(index)

\* handleClick's body: setSelectedIndex(index).
HandleClickBody(prev, index) == Num(index)

\* Keys are strings: the host converts a numeric key to its decimal form.
ToKey(n) == <<"0", "1", "2", "3", "4", "5", "6", "7", "8", "9">>[n + 1]

\* A row element keyed by its position (README, fix 5: key={index}).
RowElementByIndex(item, index, sel, cb) ==
    [key |-> ToKey(index),
     props |-> [onClickHandler |-> cb, text |-> item.text, index |-> index,
                isSelected |-> IsSelected(sel, index)]]

\* The <SingleListItem .../> element of one entry.
RowElement(item, index, sel, cb) ==
    [key |-> item.id,
     props |-> [onClickHandler |-> cb, text |-> item.text, index |-> index,
                isSelected |-> IsSelected(sel, index)]]

\* items.reverse().map(...): Array.prototype.reverse reorders the receiver
\* in place.
ItemsMapReversed(arr, sel, cb) ==
    LET rev == [i \in 1..Len(arr) |-> arr[Len(arr) + 1 - i]]
    IN [result |-> [i \in 1..Len(arr) |-> RowElement(rev[i], i - 1, sel, cb)],
        receiver |-> rev]

\* items.map((item, index) => <SingleListItem .../>): a new array of row
\* elements, the receiver untouched.
ItemsMap(arr, sel, cb) ==
    [result |-> [i \in 1..Len(arr) |-> RowElement(arr[i], i - 1, sel, cb)],
     receiver |-> arr]

\* A list that always returns the ul, also for an empty array.
WrappedListComponentNoGuard(items, sel, cb, hp) ==
    IF LooseEquals(items, JNull)
    THEN [element |-> JNull, heap |-> hp]
    ELSE LET m == ItemsMap(hp[items], sel, cb)
         IN [element |-> [tag |-> "ul", children |-> m.result],
             heap |-> [hp EXCEPT ![items] = m.receiver]]

\* The body of the component after its hooks: what it returns, and the heap
\* it leaves.
WrappedListComponent(items, sel, cb, hp) ==
    IF LooseEquals(items, JNull) \/ Len(hp[items]) = 0
    THEN [element |-> JNull, heap |-> hp]
    ELSE LET m == ItemsMap(hp[items], sel, cb)
         IN [element |-> [tag |-> "ul", children |-> m.result],
             heap |-> [hp EXCEPT ![items] = m.receiver]]

----------------------------------------------------------------------------
\* The host: matching rows by key, and committing

Children(d) == IF d = JNull THEN <<>> ELSE d.children

Keys(d) == { Children(d)[i].key : i \in DOMAIN Children(d) }

RowOf(d, k) == Children(d)[CHOOSE i \in DOMAIN Children(d) : Children(d)[i].key = k]

\* The function a render creates is a new object: an identity no live
\* function has.
FreshFn ==
    LET live == {handleClick} \cup
                { Children(dom)[i].props.onClickHandler : i \in DOMAIN Children(dom) }
    IN CHOOSE n \in 1..(Cardinality(live) + 1) :
           n \notin live /\ \A m \in 1..(n - 1) : m \in live

\* Whether the row element e has to be rendered against the committed rows.
RowRuns(old, e) ==
    \/ e.key \notin Keys(old)
    \/ ~SingleListItemSkips(RowOf(old, e.key).props, e.props)

RECURSIVE Invocations(_, _, _)
Invocations(old, els, i) ==
    IF i > Len(els) THEN <<>>
    ELSE (IF RowRuns(old, els[i]) THEN WrappedSingleListItem(els[i].props).invoked
          ELSE <<>>) \o Invocations(old, els, i + 1)

Reconcile(old, element) ==
    IF element = JNull
    THEN [dom |-> JNull, rendered |-> {}, invoked |-> <<>>]
    ELSE LET els == element.children
         IN [dom |-> [tag |-> "ul",
                      children |->
                        [i \in DOMAIN els |->
                           [key |-> els[i].key, props |-> els[i].props,
                            li |-> IF RowRuns(old, els[i])
                                   THEN WrappedSingleListItem(els[i].props).li
                                   ELSE RowOf(old, els[i].key).li]]],
             rendered |-> { els[i].key : i \in { j \in DOMAIN els : RowRuns(old, els[j]) } },
             invoked |-> Invocations(old, els, 1)]

SameContent(a, b) ==
    /\ a.t = "array" /\ b.t = "array"
    /\ heap[a] = heap[b]

\* One render of the List with the state `sel` and its commit. `calls` are
\* the handler calls the step made before rendering, `pending` whether an
\* earlier reset effect is still due.
Render(nextProps, sel, isMount, calls, pending) ==
    LET items == DefaultProps(nextProps)
        state == UseState(sel, isMount)
        cb == UseCallback(handleClick, FreshFn, isMount)
        out == WrappedListComponent(items, state, cb, heap)
        rec == Reconcile(IF isMount THEN JNull ELSE dom, out.element)
        fires == UseEffect(effectDeps, items, isMount)
    IN /\ props' = nextProps
       /\ selectedIndex' = IF rec.invoked = <<>> THEN state
                           ELSE HandleClickBody(state, rec.invoked[Len(rec.invoked)])
       /\ handleClick' = cb
       /\ heap' = out.heap
       /\ dom' = rec.dom
       /\ rowRenders' = rec.rendered
       /\ invoked' = calls \o rec.invoked
       /\ effectDeps' = items
       /\ effectPending' = (pending \/ fires)
       /\ why' = IF ~fires THEN why
                 ELSE IF isMount THEN "mount"
                 ELSE IF SameContent(effectDeps, items) THEN "identical"
                 ELSE "changed"

\* An operation that renders nothing.
NoRender ==
    /\ rowRenders' = {}
    /\ invoked' = <<>>
    /\ UNCHANGED <<heap, props, handleClick, dom, effectDeps, why>>

----------------------------------------------------------------------------
Init ==
    /\ heap = [r \in Refs |-> r.of]
    /\ mounted = FALSE
    /\ props = JUndefined
    /\ selectedIndex = JNull
    /\ effectDeps = JUndefined
    /\ effectPending = FALSE
    /\ handleClick = 0
    /\ dom = JNull
    /\ rowRenders = {}
    /\ invoked = <<>>
    /\ why = "none"
    /\ last = [op |-> "init", pos |-> 0, prevSel |-> JNull]

\* The host mounts <List items={v}/>.
Mount(v) ==
    /\ ~mounted
    /\ mounted' = TRUE
    /\ Render(v, JNull, TRUE, <<>>, FALSE)
    /\ last' = [op |-> "mount", pos |-> 0, prevSel |-> selectedIndex]

\* The host renders <List items={v}/> again.
SetItems(v) ==
    /\ mounted
    /\ IF ListSkips(props, v)
       THEN NoRender /\ UNCHANGED <<selectedIndex, effectPending>>
       ELSE Render(v, selectedIndex, FALSE, <<>>, effectPending)
    /\ last' = [op |-> "setItems", pos |-> 0, prevSel |-> selectedIndex]
    /\ UNCHANGED mounted

\* The scheduled reset effect runs; a changed state renders the List again.
\* The effect is passive: it runs some time after the commit that scheduled
\* it, so the host rendering again and a click may both come first, and they
\* then render with the selection as it stands while the reset stays due.
RunEffect ==
    /\ mounted
    /\ effectPending
    /\ IF ObjectIs(selectedIndex, EffectBody)
       THEN NoRender /\ effectPending' = FALSE /\ UNCHANGED selectedIndex
       ELSE Render(props, EffectBody, FALSE, <<>>, FALSE)
    /\ last' = [op |-> "effect", pos |-> 0, prevSel |-> selectedIndex]
    /\ UNCHANGED mounted

\* The user clicks the row shown at position p: the li's onClick calls
\* onClickHandler(index); a changed state renders the List again.
Click(p) ==
    /\ mounted
    /\ p + 1 \in DOMAIN Children(dom)
    /\ LET onClick == Children(dom)[p + 1].li.onClick
           next == HandleClickBody(selectedIndex, onClick.arg)
       IN IF ObjectIs(selectedIndex, next)
          THEN /\ rowRenders' = {}
               /\ invoked' = <<onClick.arg>>
               /\ UNCHANGED <<heap, props, handleClick, dom, effectDeps, why,
                              selectedIndex, effectPending>>
          ELSE Render(props, next, FALSE, <<onClick.arg>>, effectPending)
    /\ last' = [op |-> "click", pos |-> p, prevSel |-> selectedIndex]
    /\ UNCHANGED mounted

\* The host removes the List: its state is discarded.
Unmount ==
    /\ mounted
    /\ mounted' = FALSE
    /\ props' = JUndefined
    /\ selectedIndex' = JNull
    /\ effectDeps' = JUndefined
    /\ effectPending' = FALSE
    /\ handleClick' = 0
    /\ dom' = JNull
    /\ rowRenders' = {}
    /\ invoked' = <<>>
    /\ why' = "none"
    /\ last' = [op |-> "unmount", pos |-> 0, prevSel |-> selectedIndex]
    /\ UNCHANGED heap

Next ==
    \/ \E v \in ItemsInputs : Mount(v)
    \/ \E v \in ItemsInputs : SetItems(v)
    \/ RunEffect
    \/ \E p \in 0..(MaxLen - 1) : Click(p)
    \/ Unmount

Spec == Init /\ [][Next]_vars

----------------------------------------------------------------------------
\* Properties

Items == DefaultProps(props)

IsEmptyInput(items) == LooseEquals(items, JNull) \/ Len(heap[items]) = 0

\* Positions (from 1, as Children is indexed) of the rows shown selected.
SelectedRows(d) == { i \in DOMAIN Children(d) : Children(d)[i].props.isSelected }

ActiveRows(d) ==
    { i \in DOMAIN Children(d) : Children(d)[i].li.backgroundColor = "green" }

\* The key of the row at position pos (from 0), if there is one.
KeyAt(d, pos) ==
    IF pos + 1 \in DOMAIN Children(d) THEN {Children(d)[pos + 1].key} ELSE {}

KeyOfSelection(d, sel) == IF sel.t = "number" THEN KeyAt(d, sel.n) ELSE {}

\* C1: whenever the List is mounted with items absent, null or of length
\* zero, whatever the selection state, the committed output is nothing: no
\* container, no row, and no row function has run.
C1_EmptyRendersNothing ==
    (mounted /\ IsEmptyInput(Items)) => (dom = JNull /\ rowRenders = {})

\* An empty array rendered while a position is still selected.
C1_Witness ==
    /\ mounted
    /\ props.t = "array"
    /\ Len(heap[props]) = 0
    /\ selectedIndex # JNull
    /\ dom = JNull

\* C2: for a non-empty items the output is one container with exactly one row
\* per entry in collection order: row i has position i, the entry's text, and
\* the entry's id as its key.
C2_OneRowPerEntry ==
    (mounted /\ ~IsEmptyInput(Items)) =>
        /\ dom # JNull
        /\ dom.tag = "ul"
        /\ Len(dom.children) = Len(heap[Items])
        /\ \A i \in DOMAIN dom.children :
              /\ dom.children[i].key = heap[Items][i].id
              /\ dom.children[i].props.index = i - 1
              /\ dom.children[i].props.text = heap[Items][i].text
              /\ dom.children[i].li.text = heap[Items][i].text

\* Rows rendered after a replacement of the collection in which the entry
\* with id "a" stands at the second position, so that key and position differ.
C2_Witness ==
    /\ mounted
    /\ last.op = "setItems"
    /\ Len(Children(dom)) >= 2
    /\ Children(dom)[2].key = "a"
    /\ rowRenders # {}

\* C3: after a click on the row at position p, whatever was selected before,
\* the selection is p, the row at p is the only one with isSelected = true
\* (and the only one shown active); a click never deselects.
C3_ClickSelectsExactlyThatRow ==
    (last.op = "click") =>
        /\ selectedIndex = Num(last.pos)
        /\ SelectedRows(dom) = {last.pos + 1}
        /\ ActiveRows(dom) = {last.pos + 1}

\* A click on the row that was already the selected one.
C3_Witness ==
    /\ last.op = "click"
    /\ last.prevSel = Num(last.pos)
    /\ Len(Children(dom)) >= 2
    /\ SelectedRows(dom) = {last.pos + 1}

\* C4: in every committed render, also those between an items change and
\* the reset effect, at most one row has isSelected = true.
C4_AtMostOneSelected == Cardinality(SelectedRows(dom)) <= 1

\* A replaced collection rendered before the reset effect ran, with the old
\* selection still showing on one of at least two rows.
C4_Witness ==
    /\ last.op = "setItems"
    /\ effectPending
    /\ why \in {"changed", "identical"}
    /\ Len(Children(dom)) >= 2
    /\ Cardinality(SelectedRows(dom)) = 1

\* C5: the first mount and every change of the items value schedule the
\* reset effect; once the effect has run the selection is none, whatever it
\* was before; and a selection that is none stays none until a click.
C5_ResetOnItemsChange ==
    [][ /\ (mounted' /\ (~mounted \/ ~ObjectIs(Items, Items'))) => effectPending'
        /\ (last'.op = "effect") => (selectedIndex' = JNull /\ ~effectPending')
        /\ (mounted /\ mounted' /\ selectedIndex = JNull /\ last'.op # "click")
              => selectedIndex' = JNull ]_vars

\* The effect has run after a replacement by an element-wise identical
\* collection under another reference, and cleared a selection.
C5_Witness ==
    /\ last.op = "effect"
    /\ why = "identical"
    /\ last.prevSel # JNull
    /\ selectedIndex = JNull
    /\ ~effectPending

\* C6: while a List instance is mounted the memoised click handler is never
\* replaced, and every row of every render receives that one reference.
C6_StableHandler ==
    [][ mounted' =>
          /\ mounted => handleClick' = handleClick
          /\ \A i \in DOMAIN Children(dom') :
                Children(dom')[i].props.onClickHandler = handleClick' ]_vars

\* Rows rendered by a click that followed a replacement of the collection:
\* the selection and the items have both changed since the first render.
C6_Witness ==
    /\ mounted
    /\ why = "changed"
    /\ last.op = "click"
    /\ rowRenders # {}
    /\ Len(Children(dom)) >= 2

\* C7: a row that was on screen runs its function again only if one of its
\* props differs from those of its previous render; with items unchanged a
\* click at p while q is selected runs at most the rows at p and q, and a
\* click on the selected row runs none.
C7_RowsRerenderOnlyOnChange ==
    [][ (mounted /\ mounted') =>
          /\ \A k \in rowRenders' :
                k \in Keys(dom) => RowOf(dom, k).props # RowOf(dom', k).props
          /\ (last'.op = "click") =>
                /\ rowRenders' \subseteq
                      (KeyAt(dom, last'.pos) \cup KeyOfSelection(dom, selectedIndex))
                /\ (selectedIndex = Num(last'.pos)) => rowRenders' = {} ]_vars

\* A click that moved the selection in a list of three rows: two rows ran,
\* the third was skipped.
C7_Witness ==
    /\ last.op = "click"
    /\ last.prevSel.t = "number"
    /\ last.prevSel # Num(last.pos)
    /\ Len(Children(dom)) = 3
    /\ Cardinality(rowRenders) = 2

\* C8: the selection changes only by a click (to the clicked position) or by
\* the reset effect (to none; teardown discards it); the host rendering the
\* List again, with the same or with other items, leaves it as it is; and no
\* step changes the content of any collection.
C8_SelectionFrame ==
    [][ /\ heap' = heap
        /\ (selectedIndex' # selectedIndex) =>
              \/ last'.op = "click" /\ selectedIndex' = Num(last'.pos)
              \/ last'.op = "effect" /\ selectedIndex' = JNull
              \/ last'.op = "unmount" /\ selectedIndex' = JNull
        /\ (last'.op = "setItems") => selectedIndex' = selectedIndex ]_vars

\* The host rendered the List again with the same items reference while a
\* row was selected: nothing ran and the selection is kept.
C8_Witness ==
    /\ last.op = "setItems"
    /\ ~effectPending
    /\ selectedIndex # JNull
    /\ SelectedRows(dom) # {}
    /\ rowRenders = {}

\* C9: the click handler is called only by a click on a rendered row, once,
\* with that row's position; a step that is not a click calls it never,
\* however many rows it renders.
C9_HandlerOnlyOnClick ==
    /\ (last.op = "click") => invoked = <<last.pos>>
    /\ (last.op # "click") => invoked = <<>>

\* A mount that rendered three rows without any handler call.
C9_Witness ==
    /\ last.op = "mount"
    /\ Cardinality(rowRenders) = 3
    /\ invoked = <<>>

\* C10: whenever the List renders a collection other than that of its
\* previous render, no row of that render has isSelected = true.
C10_ReplacedCollectionShowsNoSelection ==
    [][ (mounted /\ mounted' /\ ~ObjectIs(Items, Items')) =>
            SelectedRows(dom') = {} ]_vars

====
